---------------------------- MODULE Spec2Model ----------------------------
(***************************************************************************)
(* Model of script.py (page-watcher): one run of main() fetches a page,    *)
(* normalizes its text, compares its digest with the snapshot file's,      *)
(* and on a change mails a unified diff and overwrites the snapshot.       *)
(*                                                                         *)
(* A text is a sequence of one-character strings.  A Python value that     *)
(* may be None is a sequence of length at most one: None is <<>> and a     *)
(* value v is <<v>>.                                                       *)
(***************************************************************************)
EXTENDS Integers, Sequences, FiniteSets, TLC

VARIABLES
    CSS_SELECTOR,   \* script.py:18, fixed for the life of the process
    snapshot_file,  \* the file at SNAPSHOT_FILE: None (absent) or Some(text)
    pc,             \* position of the run inside main()
    text,           \* argument of normalize_text (local of fetch_content)
    content,        \* main: content
    h,              \* main: h
    old_content,    \* main: old_content
    old_hash,       \* main: old_hash
    diff,           \* main: diff (the lines joined by generate_diff)
    smtp_calls,     \* number of calls of send_email in this run
    outbox,         \* messages handed to the SMTP server in this run
    writes,         \* number of writes of the snapshot file in this run
    stdout,         \* lines printed in this run
    error,          \* the uncaught exception that ended this run, or None
    file_at_start,  \* history: snapshot_file when this run started
    last_notified,  \* history: content of the last run that detected a
                    \* change and whose send_email returned, or None
    prev_run        \* history: None, or Some of the previous run's
                    \* [ok, content]

vars == <<CSS_SELECTOR, snapshot_file, pc, text, content, h, old_content,
          old_hash, diff, smtp_calls, outbox, writes, stdout, error,
          file_at_start, last_notified, prev_run>>

-----------------------------------------------------------------------------
(* Bounds *)

\* longest extracted page text, in characters
MaxLen == 4
\* longest line sequence given to generate_diff on its own
MaxLines == 4

-----------------------------------------------------------------------------
(* Values *)

None == <<>>
Some(v) == <<v>>

LF == "\n"
CR == "\r"
SP == " "

\* characters str.splitlines() breaks a line at
LineBreaks == {LF, CR}
\* characters str.strip() removes
Whitespace == {SP, LF, CR}

\* characters of a page text
PageChars == {"a", SP, LF, CR}
\* one-character lines given to generate_diff on its own
DiffLineChars == {"a", "b", "c", "x"}

RECURSIVE SeqsUpTo(_, _)
SeqsUpTo(S, n) ==
    IF n = 0 THEN {<<>>}
    ELSE LET shorter == SeqsUpTo(S, n - 1)
         IN  shorter \cup {Append(s, c) : s \in shorter, c \in S}

Texts == SeqsUpTo(PageChars, MaxLen)

Min(x, y) == IF x < y THEN x ELSE y
Max(x, y) == IF x > y THEN x ELSE y

-----------------------------------------------------------------------------
(* normalize_text and the string methods it uses *)

\* index of the first line break of s, 0 when it has none
FirstBreak(s) ==
    LET at == {k \in 1..Len(s) : s[k] \in LineBreaks}
    IN  IF at = {} THEN 0 ELSE CHOOSE k \in at : \A m \in at : k <= m

\* str.splitlines(): "\r\n" is one break; no empty last line after a
\* final break
RECURSIVE splitlines(_)
splitlines(s) ==
    IF s = <<>> THEN <<>>
    ELSE LET k == FirstBreak(s)
         IN  IF k = 0 THEN <<s>>
             ELSE LET skip == IF s[k] = CR /\ k < Len(s) /\ s[k + 1] = LF
                              THEN 2 ELSE 1
                  IN  <<SubSeq(s, 1, k - 1)>>
                          \o splitlines(SubSeq(s, k + skip, Len(s)))

\* str.strip()
strip(s) ==
    LET keep == {k \in 1..Len(s) : s[k] \notin Whitespace}
    IN  IF keep = {} THEN <<>>
        ELSE LET lo == CHOOSE k \in keep : \A m \in keep : k <= m
                 hi == CHOOSE k \in keep : \A m \in keep : k >= m
             IN  SubSeq(s, lo, hi)

\* sep.join(lines)
RECURSIVE join(_, _)
join(sep, lines) ==
    IF lines = <<>> THEN <<>>
    ELSE IF Len(lines) = 1 THEN lines[1]
    ELSE lines[1] \o sep \o join(sep, Tail(lines))

NonEmpty(ln) == ln # <<>>

\* a slip: the text is stripped once as a whole, not line by line
normalize_text_StripWhole(t) ==
    join(<<LF>>, SelectSeq(splitlines(strip(t)), NonEmpty))

normalize_text(t) ==
    LET lines == [k \in 1..Len(splitlines(t)) |-> strip(splitlines(t)[k])]
    IN  join(<<LF>>, SelectSeq(lines, NonEmpty))

-----------------------------------------------------------------------------
(* difflib, as generate_diff uses it: unified_diff(old_lines, new_lines,   *)
(* lineterm="") with its defaults n = 3, no junk, and sequences shorter    *)
(* than the 200 elements at which SequenceMatcher starts to set popular    *)
(* elements aside.  Indices are Python's: 0-based, ranges half-open, so    *)
(* element i of a is a[i + 1].                                             *)

\* unified_diff(..., n=3): lines of context
ContextLines == 3

MaxOf(S) == CHOOSE x \in S : \A y \in S : x >= y
MinOf(S) == CHOOSE x \in S : \A y \in S : x <= y

\* length of the longest common run of a[i:ahi] and b[j:bhi]
RECURSIVE MatchLen(_, _, _, _, _, _)
MatchLen(a, b, i, ahi, j, bhi) ==
    IF i < ahi /\ j < bhi /\ a[i + 1] = b[j + 1]
    THEN 1 + MatchLen(a, b, i + 1, ahi, j + 1, bhi)
    ELSE 0

\* the block of size k starting at besti in a that starts earliest in b
LongestFrom(a, b, ahi, blo, bhi, k, besti) ==
    <<besti,
      MinOf({j \in blo..(bhi - 1) : MatchLen(a, b, besti, ahi, j, bhi) = k}),
      k>>

\* the block of the largest size k that starts earliest in a
LongestOfSize(a, b, alo, ahi, blo, bhi, k) ==
    IF k = 0 THEN <<alo, blo, 0>>
    ELSE LongestFrom(a, b, ahi, blo, bhi, k,
             MinOf({i \in alo..(ahi - 1) :
                       \E j \in blo..(bhi - 1) :
                           MatchLen(a, b, i, ahi, j, bhi) = k}))

\* SequenceMatcher.find_longest_match: the longest block a[i:i+k] ==
\* b[j:j+k] inside the ranges; of those the one starting earliest in a,
\* and of those the one starting earliest in b; (alo, blo, 0) when the
\* ranges share no element
find_longest_match(a, b, alo, ahi, blo, bhi) ==
    LongestOfSize(a, b, alo, ahi, blo, bhi,
        MaxOf({MatchLen(a, b, i, ahi, j, bhi) :
                   i \in alo..(ahi - 1), j \in blo..(bhi - 1)} \cup {0}))

\* the queue of get_matching_blocks followed by its sort: around the
\* longest match m, the blocks to its left before it and those to its
\* right after it
RECURSIVE MatchesIn(_, _, _, _, _, _)
RECURSIVE MatchesAround(_, _, _, _, _, _, _)
MatchesAround(a, b, alo, ahi, blo, bhi, m) ==
    IF m[3] = 0 THEN <<>>
    ELSE (IF alo < m[1] /\ blo < m[2]
          THEN MatchesIn(a, b, alo, m[1], blo, m[2]) ELSE <<>>)
         \o <<m>>
         \o (IF m[1] + m[3] < ahi /\ m[2] + m[3] < bhi
             THEN MatchesIn(a, b, m[1] + m[3], ahi, m[2] + m[3], bhi)
             ELSE <<>>)

MatchesIn(a, b, alo, ahi, blo, bhi) ==
    MatchesAround(a, b, alo, ahi, blo, bhi,
                  find_longest_match(a, b, alo, ahi, blo, bhi))

\* get_matching_blocks: adjacent blocks collapsed into one
RECURSIVE Collapse(_, _)
Collapse(cur, blocks) ==
    IF blocks = <<>> THEN (IF cur[3] > 0 THEN <<cur>> ELSE <<>>)
    ELSE IF cur[1] + cur[3] = blocks[1][1] /\ cur[2] + cur[3] = blocks[1][2]
    THEN Collapse(<<cur[1], cur[2], cur[3] + blocks[1][3]>>, Tail(blocks))
    ELSE (IF cur[3] > 0 THEN <<cur>> ELSE <<>>)
         \o Collapse(blocks[1], Tail(blocks))

get_matching_blocks(a, b) ==
    Collapse(<<0, 0, 0>>, MatchesIn(a, b, 0, Len(a), 0, Len(b)))
        \o << <<Len(a), Len(b), 0>> >>

\* the opcode before the block at (ai, bj) when a is at i and b at j
OpcodeBefore(i, j, ai, bj) ==
    IF i < ai /\ j < bj THEN << <<"replace", i, ai, j, bj>> >>
    ELSE IF i < ai THEN << <<"delete", i, ai, j, bj>> >>
    ELSE IF j < bj THEN << <<"insert", i, ai, j, bj>> >>
    ELSE <<>>

\* get_opcodes: <<tag, i1, i2, j1, j2>> turning a into b
RECURSIVE OpcodesFrom(_, _, _)
OpcodesFrom(blocks, i, j) ==
    IF blocks = <<>> THEN <<>>
    ELSE OpcodeBefore(i, j, blocks[1][1], blocks[1][2])
         \o (IF blocks[1][3] > 0
             THEN << <<"equal", blocks[1][1], blocks[1][1] + blocks[1][3],
                       blocks[1][2], blocks[1][2] + blocks[1][3]>> >>
             ELSE <<>>)
         \o OpcodesFrom(Tail(blocks), blocks[1][1] + blocks[1][3],
                        blocks[1][2] + blocks[1][3])

get_opcodes(a, b) == OpcodesFrom(get_matching_blocks(a, b), 0, 0)

\* the loop of get_grouped_opcodes over the codes left, with the group
\* being built
RECURSIVE GroupsFrom(_, _, _)
GroupsFrom(codes, group, n) ==
    IF codes = <<>>
    THEN IF group # <<>> /\ ~(Len(group) = 1 /\ group[1][1] = "equal")
         THEN <<group>> ELSE <<>>
    ELSE IF codes[1][1] = "equal" /\ codes[1][3] - codes[1][2] > n + n
    THEN <<Append(group,
                  <<"equal",
                    codes[1][2], Min(codes[1][3], codes[1][2] + n),
                    codes[1][4], Min(codes[1][5], codes[1][4] + n)>>)>>
         \o GroupsFrom(Tail(codes),
                       << <<"equal",
                            Max(codes[1][2], codes[1][3] - n), codes[1][3],
                            Max(codes[1][4], codes[1][5] - n), codes[1][5]>> >>,
                       n)
    ELSE GroupsFrom(Tail(codes), Append(group, codes[1]), n)

\* get_grouped_opcodes: no opcode at all stands for one equal opcode
CodesOrEqual(codes) ==
    IF codes = <<>> THEN << <<"equal", 0, 1, 0, 1>> >> ELSE codes

\* a leading equal opcode keeps its last n lines
TrimFirst(codes, n) ==
    IF codes[1][1] = "equal"
    THEN [codes EXCEPT ![1] =
             <<"equal", Max(codes[1][2], codes[1][3] - n), codes[1][3],
               Max(codes[1][4], codes[1][5] - n), codes[1][5]>>]
    ELSE codes

\* a trailing equal opcode keeps its first n lines
TrimLast(codes, n) ==
    IF codes[Len(codes)][1] = "equal"
    THEN [codes EXCEPT ![Len(codes)] =
             <<"equal",
               codes[Len(codes)][2],
               Min(codes[Len(codes)][3], codes[Len(codes)][2] + n),
               codes[Len(codes)][4],
               Min(codes[Len(codes)][5], codes[Len(codes)][4] + n)>>]
    ELSE codes

get_grouped_opcodes(a, b, n) ==
    GroupsFrom(TrimLast(TrimFirst(CodesOrEqual(get_opcodes(a, b)), n), n),
               <<>>, n)

\* _format_range_unified, as <<beginning, length>>
format_range_unified(start, stop) ==
    <<IF stop - start = 0 THEN start ELSE start + 1, stop - start>>

\* a line of the diff: its first characters (the marker) and the rest
DiffLine(mark, rest) == <<mark, rest>>

\* the lines one opcode yields
OpcodeLines(a, b, c) ==
    IF c[1] = "equal"
    THEN [k \in 1..(c[3] - c[2]) |-> DiffLine(" ", a[c[2] + k])]
    ELSE (IF c[1] \in {"replace", "delete"}
          THEN [k \in 1..(c[3] - c[2]) |-> DiffLine("-", a[c[2] + k])]
          ELSE <<>>)
         \o (IF c[1] \in {"replace", "insert"}
             THEN [k \in 1..(c[5] - c[4]) |-> DiffLine("+", b[c[4] + k])]
             ELSE <<>>)

RECURSIVE GroupLines(_, _, _)
GroupLines(a, b, group) ==
    IF group = <<>> THEN <<>>
    ELSE OpcodeLines(a, b, Head(group)) \o GroupLines(a, b, Tail(group))

\* the "@@ -r1 +r2 @@" line of a group
HunkHeader(first, last) ==
    DiffLine("@@", format_range_unified(first[2], last[3])
                       \o format_range_unified(first[4], last[5]))

RECURSIVE HunksFrom(_, _, _)
HunksFrom(a, b, groups) ==
    IF groups = <<>> THEN <<>>
    ELSE <<HunkHeader(groups[1][1], groups[1][Len(groups[1])])>>
         \o GroupLines(a, b, groups[1])
         \o HunksFrom(a, b, Tail(groups))

\* the two file header lines (file names and dates empty) before the
\* first hunk
WithFileHeader(hunks) ==
    IF hunks = <<>> THEN <<>>
    ELSE <<DiffLine("---", <<SP>>), DiffLine("+++", <<SP>>)>> \o hunks

\* difflib.unified_diff(a, b, lineterm="")
unified_diff(a, b) ==
    WithFileHeader(HunksFrom(a, b, get_grouped_opcodes(a, b, ContextLines)))

-----------------------------------------------------------------------------
(* The helpers of script.py *)

\* hashlib.sha256(s.encode("utf-8")).hexdigest() is taken to be free of
\* collisions: the digest of a text is its number in a positional code
\* with a non-zero digit for every character, so that two texts have the
\* same digest only if they are the same text.
CharCode(c) ==
    CASE c = "a" -> 1
      [] c = "b" -> 2
      [] c = "c" -> 3
      [] c = "x" -> 4
      [] c = SP -> 5
      [] c = LF -> 6
      [] c = CR -> 7

RECURSIVE Digest(_, _)
Digest(acc, s) ==
    IF s = <<>> THEN acc
    ELSE Digest(acc * (CharCode(CR) + 1) + CharCode(Head(s)), Tail(s))

\* a digest that collides: it depends on the length of the text alone
make_hash_Collides(s) == Len(s)

make_hash(s) == Digest(0, s)

\* os.linesep of the platform the script runs on
linesep == <<LF>>

\* Path.write_text: text mode writes each "\n" as os.linesep
RECURSIVE write_text(_)
write_text(s) ==
    IF s = <<>> THEN <<>>
    ELSE (IF Head(s) = LF THEN linesep ELSE <<Head(s)>>)
         \o write_text(Tail(s))

\* Path.read_text: text mode reads "\r\n" and "\r" as "\n"
RECURSIVE read_text(_)
read_text(s) ==
    IF s = <<>> THEN <<>>
    ELSE IF Head(s) = CR
    THEN <<LF>> \o read_text(IF Len(s) > 1 /\ s[2] = LF
                             THEN Tail(Tail(s)) ELSE Tail(s))
    ELSE <<Head(s)>> \o read_text(Tail(s))

\* a slip: an absent file read as an empty snapshot
get_last_snapshot_EmptyWhenAbsent(file) ==
    IF file = None THEN <<Some(<<>>), Some(make_hash(<<>>))>>
    ELSE <<Some(read_text(file[1])), Some(make_hash(read_text(file[1])))>>

\* <<content, hash>> of the snapshot file, <<None, None>> when absent
get_last_snapshot(file) ==
    IF file = None THEN <<None, None>>
    ELSE <<Some(read_text(file[1])), Some(make_hash(read_text(file[1])))>>

\* a slip: the snapshot written with a final newline
save_snapshot_TrailingNewline(c) == Some(write_text(c \o <<LF>>))

\* the snapshot file after save_snapshot(content, h)
save_snapshot(c) == Some(write_text(c))

\* a slip: the arguments of unified_diff exchanged
generate_diff_Swapped(old, new) ==
    unified_diff(splitlines(new),
                 IF old # None /\ old[1] # <<>> THEN splitlines(old[1])
                 ELSE <<>>)

\* the lines of the diff; the text generate_diff returns is these joined
\* by "\n", and is empty exactly when there is no line (no line is empty)
generate_diff(old, new) ==
    unified_diff(IF old # None /\ old[1] # <<>> THEN splitlines(old[1])
                 ELSE <<>>,
                 splitlines(new))

\* the line send_email puts before the diff
DIFF_HEADING == DiffLine("--- DIFF ---", <<>>)

\* a slip: the diff left out of the message
body_full_NoDiff(body, diff_text) == [summary |-> body, diff_block |-> <<>>]

\* body_full of send_email: the body, then the heading and the diff when
\* diff_text is not empty
body_full(body, diff_text) ==
    [summary |-> body,
     diff_block |-> IF diff_text # <<>> THEN <<DIFF_HEADING>> \o diff_text
                    ELSE <<>>]

\* the message send_email builds
EmailMessage(subject, body, diff_text) ==
    [From |-> "FROM_EMAIL", To |-> "TO_EMAIL", Subject |-> subject,
     content |-> body_full(body, diff_text)]

\* a slip: every run taken to have found a change
changed_Always(oh, hh) == TRUE

\* main: old_hash != h
changed(oh, hh) == oh # hh

\* what fetch_content raises before the text is extracted
FetchErrors == {"RequestException", "HTTPError"}
\* RuntimeError(f"Selector {CSS_SELECTOR} not found on page")
SelectorNotFoundError == "RuntimeError: Selector not found on page"
\* where the SMTP session of send_email fails
SmtpErrors == {"SMTP connect", "starttls", "login", "send_message"}

NO_CHANGE == "No change"
CHANGE_DETECTED == "Change detected -> email sent"

\* the normalized texts fetch_content can return
Pages == {normalize_text(t) : t \in Texts}

-----------------------------------------------------------------------------
(* main(): one action per step of a run.  A run starts when the external   *)
(* scheduler invokes the script and ends at "done" (main returned) or at   *)
(* "aborted" (an exception left main).  time.ctime() in the body and the   *)
(* URL are not modelled.                                                   *)

Init ==
    /\ CSS_SELECTOR \in {"", "#main"}
    /\ snapshot_file = None
    /\ pc = "idle"
    /\ text = None
    /\ content = None
    /\ h = None
    /\ old_content = None
    /\ old_hash = None
    /\ diff = <<>>
    /\ smtp_calls = 0
    /\ outbox = <<>>
    /\ writes = 0
    /\ stdout = <<>>
    /\ error = None
    /\ file_at_start = None
    /\ last_notified = None
    /\ prev_run = None

\* the script is invoked: a fresh process, the snapshot file as it was left
StartRun ==
    /\ pc \in {"idle", "done", "aborted"}
    /\ pc' = "fetch"
    /\ content' = None
    /\ h' = None
    /\ old_content' = None
    /\ old_hash' = None
    /\ diff' = <<>>
    /\ smtp_calls' = 0
    /\ outbox' = <<>>
    /\ writes' = 0
    /\ stdout' = <<>>
    /\ error' = None
    /\ file_at_start' = snapshot_file
    /\ prev_run' = IF pc = "idle" THEN None
                   ELSE Some([ok |-> pc = "done", content |-> content])
    /\ UNCHANGED <<CSS_SELECTOR, snapshot_file, text, last_notified>>

\* a slip: a failed fetch reported by mail before the run ends
FetchFails_Notify ==
    /\ pc = "fetch"
    /\ \E e \in FetchErrors : error' = Some(e)
    /\ smtp_calls' = smtp_calls + 1
    /\ outbox' = Append(outbox, EmailMessage("fetch failed", None, <<>>))
    /\ pc' = "aborted"
    /\ UNCHANGED <<CSS_SELECTOR, snapshot_file, text, content, h, old_content,
                   old_hash, diff, writes, stdout, file_at_start,
                   last_notified, prev_run>>

\* fetch_content: requests.get or raise_for_status raises
FetchFails ==
    /\ pc = "fetch"
    /\ \E e \in FetchErrors : error' = Some(e)
    /\ pc' = "aborted"
    /\ UNCHANGED <<CSS_SELECTOR, snapshot_file, text, content, h, old_content,
                   old_hash, diff, smtp_calls, outbox, writes, stdout,
                   file_at_start, last_notified, prev_run>>

\* fetch_content: CSS_SELECTOR is set and select_one finds no element
SelectorNotFound ==
    /\ pc = "fetch"
    /\ CSS_SELECTOR # ""
    /\ error' = Some(SelectorNotFoundError)
    /\ pc' = "aborted"
    /\ UNCHANGED <<CSS_SELECTOR, snapshot_file, text, content, h, old_content,
                   old_hash, diff, smtp_calls, outbox, writes, stdout,
                   file_at_start, last_notified, prev_run>>

\* fetch_content returns normalize_text of the text it extracted
FetchOk ==
    /\ pc = "fetch"
    /\ \E c \in Pages : content' = Some(c)
    /\ pc' = "hash"
    /\ UNCHANGED <<CSS_SELECTOR, snapshot_file, text, h, old_content,
                   old_hash, diff, smtp_calls, outbox, writes, stdout, error,
                   file_at_start, last_notified, prev_run>>

\* h = make_hash(content)
MakeHash ==
    /\ pc = "hash"
    /\ h' = Some(make_hash(content[1]))
    /\ pc' = "load"
    /\ UNCHANGED <<CSS_SELECTOR, snapshot_file, text, content, old_content,
                   old_hash, diff, smtp_calls, outbox, writes, stdout, error,
                   file_at_start, last_notified, prev_run>>

\* old_content, old_hash = get_last_snapshot()
GetLastSnapshot ==
    /\ pc = "load"
    /\ old_content' = get_last_snapshot(snapshot_file)[1]
    /\ old_hash' = get_last_snapshot(snapshot_file)[2]
    /\ pc' = "compare"
    /\ UNCHANGED <<CSS_SELECTOR, snapshot_file, text, content, h, diff,
                   smtp_calls, outbox, writes, stdout, error, file_at_start,
                   last_notified, prev_run>>

\* old_hash != h: diff = generate_diff(old_content, content)
Changed ==
    /\ pc = "compare"
    /\ changed(old_hash, h)
    /\ diff' = generate_diff(old_content, content[1])
    /\ pc' = "send"
    /\ UNCHANGED <<CSS_SELECTOR, snapshot_file, text, content, h, old_content,
                   old_hash, smtp_calls, outbox, writes, stdout, error,
                   file_at_start, last_notified, prev_run>>

\* a slip: the snapshot saved whether or not the page changed
Unchanged_Resave ==
    /\ pc = "compare"
    /\ ~changed(old_hash, h)
    /\ snapshot_file' = save_snapshot(content[1])
    /\ writes' = writes + 1
    /\ stdout' = Append(stdout, NO_CHANGE)
    /\ pc' = "done"
    /\ UNCHANGED <<CSS_SELECTOR, text, content, h, old_content, old_hash,
                   diff, smtp_calls, outbox, error, file_at_start,
                   last_notified, prev_run>>

\* old_hash == h: print("No change") and main returns
Unchanged ==
    /\ pc = "compare"
    /\ ~changed(old_hash, h)
    /\ stdout' = Append(stdout, NO_CHANGE)
    /\ pc' = "done"
    /\ UNCHANGED <<CSS_SELECTOR, snapshot_file, text, content, h, old_content,
                   old_hash, diff, smtp_calls, outbox, writes, error,
                   file_at_start, last_notified, prev_run>>

\* send_email returns: the session was set up and the message handed over
SendEmailOk ==
    /\ pc = "send"
    /\ smtp_calls' = smtp_calls + 1
    /\ outbox' = Append(outbox,
                        EmailMessage("[PageWatcher] Change detected",
                                     [selector |-> IF CSS_SELECTOR = ""
                                                   THEN "(whole page)"
                                                   ELSE CSS_SELECTOR,
                                      hash |-> h[1]],
                                     diff))
    /\ last_notified' = content
    /\ pc' = "save"
    /\ UNCHANGED <<CSS_SELECTOR, snapshot_file, text, content, h, old_content,
                   old_hash, diff, writes, stdout, error, file_at_start,
                   prev_run>>

\* a slip: the snapshot saved before the mail is sent
SendEmailFails_SaveFirst ==
    /\ pc = "send"
    /\ smtp_calls' = smtp_calls + 1
    /\ snapshot_file' = save_snapshot(content[1])
    /\ writes' = writes + 1
    /\ \E e \in SmtpErrors : error' = Some(e)
    /\ pc' = "aborted"
    /\ UNCHANGED <<CSS_SELECTOR, text, content, h, old_content, old_hash,
                   diff, outbox, stdout, file_at_start, last_notified,
                   prev_run>>

\* send_email raises: connecting, STARTTLS, login or the send failed
SendEmailFails ==
    /\ pc = "send"
    /\ smtp_calls' = smtp_calls + 1
    /\ \E e \in SmtpErrors : error' = Some(e)
    /\ pc' = "aborted"
    /\ UNCHANGED <<CSS_SELECTOR, snapshot_file, text, content, h, old_content,
                   old_hash, diff, outbox, writes, stdout, file_at_start,
                   last_notified, prev_run>>

\* save_snapshot(content, h)
SaveSnapshot ==
    /\ pc = "save"
    /\ snapshot_file' = save_snapshot(content[1])
    /\ writes' = writes + 1
    /\ pc' = "print"
    /\ UNCHANGED <<CSS_SELECTOR, text, content, h, old_content, old_hash,
                   diff, smtp_calls, outbox, stdout, error, file_at_start,
                   last_notified, prev_run>>

\* print("Change detected -> email sent") and main returns
PrintChange ==
    /\ pc = "print"
    /\ stdout' = Append(stdout, CHANGE_DETECTED)
    /\ pc' = "done"
    /\ UNCHANGED <<CSS_SELECTOR, snapshot_file, text, content, h, old_content,
                   old_hash, diff, smtp_calls, outbox, writes, error,
                   file_at_start, last_notified, prev_run>>

Next ==
    \/ StartRun
    \/ FetchFails
    \/ SelectorNotFound
    \/ FetchOk
    \/ MakeHash
    \/ GetLastSnapshot
    \/ Changed
    \/ Unchanged
    \/ SendEmailOk
    \/ SendEmailFails
    \/ SaveSnapshot
    \/ PrintChange

Spec == Init /\ [][Next]_vars

-----------------------------------------------------------------------------
(* normalize_text on its own: applied to every text of the bound, and      *)
(* then once more to its own result.                                       *)

InitNormalize ==
    /\ CSS_SELECTOR = ""
    /\ snapshot_file = None
    /\ pc = "normalize"
    /\ text \in {Some(t) : t \in Texts}
    /\ content = None
    /\ h = None
    /\ old_content = None
    /\ old_hash = None
    /\ diff = <<>>
    /\ smtp_calls = 0
    /\ outbox = <<>>
    /\ writes = 0
    /\ stdout = <<>>
    /\ error = None
    /\ file_at_start = None
    /\ last_notified = None
    /\ prev_run = None

Normalize ==
    /\ pc = "normalize"
    /\ content' = Some(normalize_text(text[1]))
    /\ pc' = "normalized"
    /\ UNCHANGED <<CSS_SELECTOR, snapshot_file, text, h, old_content,
                   old_hash, diff, smtp_calls, outbox, writes, stdout, error,
                   file_at_start, last_notified, prev_run>>

Renormalize ==
    /\ pc = "normalized"
    /\ text' = content
    /\ content' = Some(normalize_text(content[1]))
    /\ pc' = "renormalized"
    /\ UNCHANGED <<CSS_SELECTOR, snapshot_file, h, old_content, old_hash,
                   diff, smtp_calls, outbox, writes, stdout, error,
                   file_at_start, last_notified, prev_run>>

NextNormalize == Normalize \/ Renormalize

SpecNormalize == InitNormalize /\ [][NextNormalize]_vars

-----------------------------------------------------------------------------
(* generate_diff on its own: an old text of up to MaxLines one-character   *)
(* lines (or no old text), and a new text that is the old one with at most *)
(* one line replaced.                                                      *)

LineSeqs == SeqsUpTo(DiffLineChars, MaxLines)

\* the text whose lines are the characters of ls
TextOfLines(ls) == join(<<LF>>, [k \in 1..Len(ls) |-> <<ls[k]>>])

OneLineEdits(o) ==
    {o} \cup {[o EXCEPT ![i] = c] : i \in 1..Len(o), c \in DiffLineChars}

InitDiff ==
    /\ CSS_SELECTOR = ""
    /\ snapshot_file = None
    /\ pc = "diff"
    /\ text = None
    /\ \E o \in LineSeqs :
          /\ old_content \in {None, Some(TextOfLines(o))}
          /\ \E n \in OneLineEdits(o) : content = Some(TextOfLines(n))
    /\ h = None
    /\ old_hash = None
    /\ diff = <<>>
    /\ smtp_calls = 0
    /\ outbox = <<>>
    /\ writes = 0
    /\ stdout = <<>>
    /\ error = None
    /\ file_at_start = None
    /\ last_notified = None
    /\ prev_run = None

GenerateDiff ==
    /\ pc = "diff"
    /\ diff' = generate_diff(old_content, content[1])
    /\ pc' = "diffed"
    /\ UNCHANGED <<CSS_SELECTOR, snapshot_file, text, content, h, old_content,
                   old_hash, smtp_calls, outbox, writes, stdout, error,
                   file_at_start, last_notified, prev_run>>

NextDiff == GenerateDiff

SpecDiff == InitDiff /\ [][NextDiff]_vars

-----------------------------------------------------------------------------
(* Properties *)

\* where a run stands
RunEnded == pc \in {"done", "aborted"}
FetchFailed ==
    pc = "aborted" /\ error[1] \in FetchErrors \cup {SelectorNotFoundError}
MailFailed == pc = "aborted" /\ error[1] \in SmtpErrors
PastLoad == pc \in {"compare", "send", "save", "print", "done"} \/ MailFailed
PastCompare == pc \in {"send", "save", "print", "done"} \/ MailFailed
PastDiff == PastCompare /\ stdout # <<NO_CHANGE>>
\* the run found a change: no stored digest, or one that differs from h
Detected == PastCompare /\ (old_hash = None \/ old_hash # h)

\* the lines of a diff with a given marker, without the marker
IsAddition(l) == l[1] = "+"
IsDeletion(l) == l[1] = "-"
IsContext(l) == l[1] = " "
Rest(ls) == [k \in 1..Len(ls) |-> ls[k][2]]
Additions(d) == Rest(SelectSeq(d, IsAddition))
Deletions(d) == Rest(SelectSeq(d, IsDeletion))
Context(d) == Rest(SelectSeq(d, IsContext))

\* C1: between runs, the snapshot file is absent if no run has yet found a
\* change and had send_email return, and otherwise holds exactly the
\* content of the most recent run that did.
C1_SnapshotIsLastNotified ==
    pc \in {"idle", "done", "aborted"} => snapshot_file = last_notified

\* a run whose mail failed left the snapshot of an earlier notified run,
\* which differs from the page it fetched
C1_Witness ==
    /\ MailFailed
    /\ snapshot_file # None
    /\ snapshot_file = last_notified
    /\ content # snapshot_file

\* C2: the snapshot is written only after send_email has returned; when
\* send_email fails the run is aborted, the snapshot file is as it was
\* when the run started, and "Change detected -> email sent" is not
\* printed.
C2_SaveOnlyAfterMail ==
    /\ writes > 0 => Len(outbox) = 1 /\ smtp_calls = 1
    /\ pc \in {"print", "done"} /\ Len(outbox) = 1 => writes = 1
    /\ smtp_calls > Len(outbox) =>
          /\ MailFailed
          /\ snapshot_file = file_at_start
          /\ writes = 0
          /\ stdout = <<>>

\* a mail failure on a changed page, with an older snapshot kept
C2_Witness ==
    /\ MailFailed
    /\ smtp_calls = 1
    /\ file_at_start # None
    /\ file_at_start # content
    /\ snapshot_file = file_at_start

\* C3: a run in which fetch_content fails ends before the snapshot is
\* loaded: no mail is sent, the snapshot file is not written and nothing
\* is printed, whatever the snapshot was.
C3_FetchFailureHasNoEffect ==
    error # None /\ error[1] \notin SmtpErrors =>
        /\ pc = "aborted"
        /\ content = None
        /\ old_content = None
        /\ old_hash = None
        /\ smtp_calls = 0
        /\ outbox = <<>>
        /\ writes = 0
        /\ snapshot_file = file_at_start
        /\ stdout = <<>>

\* the selector is not found on a run that has a snapshot
C3_Witness ==
    /\ pc = "aborted"
    /\ error = Some(SelectorNotFoundError)
    /\ snapshot_file # None

\* C4: when the previous run completed and this run fetches the same
\* normalized text, this run sends no mail, leaves the snapshot file as
\* the previous run left it, finds the stored digest equal to the fresh
\* one and reports "No change".
C4_SecondRunIsNoOp ==
    (/\ prev_run # None
     /\ prev_run[1].ok
     /\ content # None
     /\ prev_run[1].content = content) =>
        /\ pc \in {"hash", "load", "compare", "done"}
        /\ smtp_calls = 0
        /\ outbox = <<>>
        /\ writes = 0
        /\ snapshot_file = file_at_start
        /\ snapshot_file = content
        /\ PastLoad => old_content = content /\ old_hash = h
        /\ pc = "done" => stdout = <<NO_CHANGE>>

\* a run that mailed a change, followed by a run on the same page
C4_Witness ==
    /\ pc = "done"
    /\ prev_run # None
    /\ prev_run[1].ok
    /\ prev_run[1].content = content
    /\ content[1] # <<>>
    /\ stdout = <<NO_CHANGE>>

\* C5: in a run that starts with no snapshot file, get_last_snapshot
\* returns (None, None) and raises nothing, the run takes the "changed"
\* branch whatever the content, and the diff has every line of the content
\* as an addition, in order, and no deletion or context line.
C5_FirstRun ==
    file_at_start = None /\ pc # "idle" =>
        /\ PastLoad => old_content = None /\ old_hash = None
        /\ PastCompare => stdout # <<NO_CHANGE>> /\ Detected
        /\ PastCompare =>
              /\ Additions(diff) = splitlines(content[1])
              /\ Deletions(diff) = <<>>
              /\ Context(diff) = <<>>

\* a first run on a page of two lines, past the diff
C5_Witness ==
    /\ file_at_start = None
    /\ pc = "send"
    /\ Len(splitlines(content[1])) = 2
    /\ Len(Additions(diff)) = 2

\* C6: with a snapshot file, the run takes the "unchanged" branch exactly
\* when the stored content and the current content are the same text (the
\* digest having no collisions), and whenever the two digests are equal.
C6_DecisionIsTextInequality ==
    PastCompare /\ old_content # None =>
        /\ stdout = <<NO_CHANGE>> <=> old_content = content
        /\ old_hash = h => stdout = <<NO_CHANGE>>
        /\ old_hash = Some(make_hash(old_content[1]))
        /\ h = Some(make_hash(content[1]))

\* a change between two texts of the same length
C6_Witness ==
    /\ pc = "send"
    /\ old_content # None
    /\ old_content # content
    /\ Len(old_content[1]) = Len(content[1])

\* a text normalize_text may return: no "\r", no white space at either
\* end or next to a "\n"; so no blank line, no line with white space at
\* either end, and a single "\n" between two lines
IsNormalized(s) ==
    /\ \A k \in 1..Len(s) : s[k] # CR
    /\ s # <<>> => s[1] \notin Whitespace /\ s[Len(s)] \notin Whitespace
    /\ \A k \in 1..(Len(s) - 1) :
          /\ s[k] = LF => s[k + 1] \notin Whitespace
          /\ s[k + 1] = LF => s[k] \notin Whitespace

\* C7: normalize_text applied to its own result returns it unchanged, and
\* its result has no blank line, no line with white space at either end,
\* and single newlines between its lines.
C7_NormalizeIdempotent ==
    /\ pc \in {"normalized", "renormalized"} => IsNormalized(content[1])
    /\ pc = "renormalized" => content = text

\* a text with blank lines and padded lines, normalized twice
C7_Witness ==
    /\ pc = "renormalized"
    /\ content = Some(<<"a", LF, "a">>)
    /\ text = content

\* C8: send_email is called in a run exactly when the run finds a change,
\* and at most once; a run that completes has sent one mail exactly when
\* it found a change; a run whose digests match prints "No change", sends
\* nothing and writes nothing.
C8_MailIffChanged ==
    /\ smtp_calls <= 1
    /\ Len(outbox) <= smtp_calls
    /\ smtp_calls = 1 => Detected
    /\ RunEnded /\ Detected => smtp_calls = 1
    /\ pc = "done" => (Len(outbox) = 1 <=> Detected)
    /\ PastCompare /\ ~Detected =>
          /\ pc = "done"
          /\ stdout = <<NO_CHANGE>>
          /\ smtp_calls = 0
          /\ outbox = <<>>
          /\ writes = 0
          /\ snapshot_file = file_at_start
    /\ pc = "done" /\ Detected =>
          stdout = <<CHANGE_DETECTED>> /\ writes = 1

\* a completed run that found no change
C8_Witness ==
    /\ pc = "done"
    /\ ~Detected
    /\ old_hash = h
    /\ content[1] # <<>>

\* the old and new lines given to generate_diff
OldLines == IF old_content = None THEN <<>> ELSE splitlines(old_content[1])
NewLines == splitlines(content[1])
\* the positions at which they differ
Differing == {i \in 1..Len(OldLines) : OldLines[i] # NewLines[i]}
OneLineReplaced ==
    /\ pc = "diffed"
    /\ old_content # None
    /\ Len(OldLines) = Len(NewLines)
    /\ Cardinality(Differing) = 1
NoRepeatedLine(ls) == \A i, j \in 1..Len(ls) : ls[i] = ls[j] => i = j
\* one deletion, one addition, and the lines within ContextLines of the
\* replaced one as context
OneLineDiff(i) ==
    /\ Deletions(diff) = <<OldLines[i]>>
    /\ Additions(diff) = <<NewLines[i]>>
    /\ Context(diff) =
          SubSeq(OldLines, Max(1, i - ContextLines), i - 1)
              \o SubSeq(OldLines, i + 1, Min(Len(OldLines), i + ContextLines))

SentDiffBlock == outbox[1].content.diff_block
HasChangeLine(d) == Additions(d) # <<>> \/ Deletions(d) # <<>>

\* C10 as stated: every mail sent has a diff with at least one addition or
\* deletion and a body with the "--- DIFF ---" block.
C10_Original ==
    outbox # <<>> =>
        /\ HasChangeLine(diff)
        /\ SentDiffBlock # <<>>
        /\ SentDiffBlock[1] = DIFF_HEADING

\* C10 amended: so it is except in a run that has no snapshot and fetches
\* an empty text; the mail of that run has an empty diff and no
\* "--- DIFF ---" block.
C10_MailHasDiff ==
    outbox # <<>> =>
        IF file_at_start = None /\ content[1] = <<>>
        THEN diff = <<>> /\ SentDiffBlock = <<>>
        ELSE /\ HasChangeLine(diff)
             /\ SentDiffBlock = <<DIFF_HEADING>> \o diff

\* a mail about a page that became empty
C10_Witness ==
    /\ outbox # <<>>
    /\ file_at_start # None
    /\ content[1] = <<>>
    /\ Deletions(diff) # <<>>

=============================================================================
